---- MODULE Spec2Model ----
(***************************************************************************)
(* fetch_columns.py: one run (main) fetches a feed through the relay,      *)
(* keeps the entries whose link contains '/columns/', merges them with the *)
(* items of the previously written output file, sorts by pubDate, trims to *)
(* --max-items and rewrites the file.  The persisted file is the only      *)
(* state that survives a run; the other variables record the last run's    *)
(* inputs and locals.                                                      *)
(*                                                                         *)
(* Strings that the code inspects are sequences of tokens (a link is       *)
(* <<"/", "columns", "/", "a">>), so the substring test is computed.       *)
(* A date string is [k, t]: k says what dateutil makes of it ("aware": a   *)
(* date with a UTC offset, "naive": a date without one, "garbage":         *)
(* unparseable, "empty": '', "none": the element or key is missing) and t  *)
(* is the instant in whole seconds.  datetime.now() is a value of the      *)
(* clock, which never runs backwards; two calls may or may not see the     *)
(* same value.  Of the channel only the items are modelled: its title,     *)
(* link, description and lastBuildDate are written and never read back.    *)
(***************************************************************************)
EXTENDS Integers, Sequences, FiniteSets, TLC

VARIABLES
    file,        \* the output path's content (what load_existing_items reads)
    clock,       \* datetime.now(timezone.utc) at the last call
    resp,        \* the relay's answer to the last run's POST
    entries,     \* parsed.entries of the last run
    existing,    \* what load_existing_items returned in the last run
    max_items,   \* args.max_items: the scheduler's command line, the same
                 \* for every run of one behaviour
    sort_keys,   \* the sort keys of all_items_sorted, after the trim
    exit_code    \* the last run's exit status ("none" before the first run)

vars == <<file, clock, resp, entries, existing, max_items, sort_keys, exit_code>>

----------------------------------------------------------------------------
(* Bounds *)

MaxTime == 2        \* the clock runs from 0 to MaxTime
MaxItemsArg == 2    \* --max-items ranges over -1..MaxItemsArg and the default

(* Program constants *)

DefaultMaxItems == 500

----------------------------------------------------------------------------
(* Strings *)

ColumnsFilter == <<"/", "columns", "/">>

LinkA == <<"/", "columns", "/", "a">>
LinkB == <<"/", "columns", "/", "b">>
LinkOld == <<"/", "columns", "/", "old">>
LinkNews == <<"/", "news", "/", "columns">>
NoText == <<>>

\* Python's `sub in s` for strings
Contains(s, sub) ==
    \E i \in 0..(Len(s) - Len(sub)) : SubSeq(s, i + 1, i + Len(sub)) = sub

\* Python's `a or b` for strings and None
OrElse(a, b) == IF a = NoText THEN b ELSE a

----------------------------------------------------------------------------
(* Dates *)

None == [k |-> "none", t |-> 0]
Empty == [k |-> "empty", t |-> 0]
Garbage == [k |-> "garbage", t |-> 0]
Aware(t) == [k |-> "aware", t |-> t]
Naive(t) == [k |-> "naive", t |-> t]

\* dtparser.parse(s): ok = FALSE when it raises
dtparser_parse(s) ==
    IF s.k \in {"aware", "naive"}
    THEN [ok |-> TRUE, aware |-> (s.k = "aware"), t |-> s.t]
    ELSE [ok |-> FALSE, aware |-> FALSE, t |-> 0]

\* datetime.now(timezone.utc)
datetime_now(now) == [ok |-> TRUE, aware |-> TRUE, t |-> now]

\* a naive datetime is taken as UTC; the result always carries +0000
rfc2822(dt) == Aware(dt.t)

----------------------------------------------------------------------------
(* Helpers of the run *)

Min(a, b) == IF a <= b THEN a ELSE b
Max(a, b) == IF a >= b THEN a ELSE b

\* load_existing_items(path): the items of the file, or [] when the file is
\* absent, does not parse, or has no channel
load_existing_items(f) ==
    IF f.kind # "rss"
    THEN <<>>
    ELSE [i \in 1..Len(f.items) |->
            LET it == f.items[i]
                link == OrElse(it.link, NoText)
            IN  [guid |-> OrElse(it.guid, link), link |-> link,
                 pubDate |-> it.pubDate, element |-> it]]

\* `if pub:` in entry_to_item_element
Truthy(s) == s.k \notin {"none", "empty"}

\* the entry gets the processing time as its date
UsesNow(entry) ==
    ~(Truthy(entry.published) /\ dtparser_parse(entry.published).ok)

\* entry_to_item_element(entry), with `now` the value datetime.now() returns
entry_to_item_element(entry, now) ==
    LET pub == entry.published
        pd == IF Truthy(pub) /\ dtparser_parse(pub).ok
              THEN rfc2822(dtparser_parse(pub))
              ELSE rfc2822(datetime_now(now))
    IN  [element |-> [title |-> entry.title, link |-> entry.link,
                      guid |-> entry.link, pubDate |-> pd],
         pd |-> pd]

\* resp.raise_for_status(): requests raises for 4xx and 5xx only
raise_for_status(status) == 400 <= status /\ status < 600

\* fetch_via_flaresolverr: raised, or the text handed to feedparser
fetch_via_flaresolverr(r) ==
    IF ~r.reach \/ raise_for_status(r.status) \/ r.json = "malformed"
    THEN [raised |-> TRUE, body |-> "none"]
    ELSE IF r.json = "solution"
         THEN [raised |-> FALSE, body |-> "feed"]
         ELSE [raised |-> FALSE, body |-> "text"]

\* feedparser.parse(body).entries, `feed` being what the upstream serves
feedparser_parse(body, feed) == IF body = "feed" THEN feed ELSE <<>>

\* a faulty variant: the filter looks for 'columns' without the slashes
MatchesWord(link) == Contains(OrElse(link, NoText), <<"columns">>)

\* the filter predicate of main
MatchesFilter(link) == Contains(OrElse(link, NoText), ColumnsFilter)

\* a faulty variant: no entry is filtered out
filtered_all(es) == es

\* filtered of main
filtered(es) == SelectSeq(es, LAMBDA e : MatchesFilter(e.link))

\* how many of the first i entries get the processing time
CountUsesNow(flt, i) == Cardinality({j \in 1..i : UsesNow(flt[j])})

\* new_items of main; the k-th entry that needs it reads nows[k]
new_items(flt, nows) ==
    [i \in 1..Len(flt) |->
        LET e == flt[i]
            now == IF UsesNow(e) THEN nows[CountUsesNow(flt, i)] ELSE 0
            r == entry_to_item_element(e, now)
        IN  [element |-> r.element, link |-> e.link,
             pubDate |-> r.pd, guid |-> e.link]]

\* a dict is the sequence of its values in insertion order
HasKey(d, g) == \E i \in 1..Len(d) : d[i].guid = g

\* a faulty variant: a list instead of a dict, every new item is appended
DictSetAppend(d, it) == Append(d, it)

\* keyed[it['guid']] = it : an existing key keeps its position
DictSet(d, it) ==
    IF HasKey(d, it.guid)
    THEN [i \in 1..Len(d) |-> IF d[i].guid = it.guid THEN it ELSE d[i]]
    ELSE Append(d, it)

\* a faulty variant: the existing item is stored without the membership test
DictSetOverwrite(d, ex) == DictSet(d, ex)

\* if ex['guid'] not in keyed: keyed[ex['guid']] = ex
DictSetDefault(d, ex) == IF HasKey(d, ex.guid) THEN d ELSE Append(d, ex)

RECURSIVE PutAll(_, _)
PutAll(d, items) ==
    IF items = <<>> THEN d
    ELSE PutAll(DictSet(d, Head(items)), Tail(items))

RECURSIVE PutMissing(_, _)
PutMissing(d, items) ==
    IF items = <<>> THEN d
    ELSE PutMissing(DictSetDefault(d, Head(items)), Tail(items))

\* keyed of main: the new items first, then the existing ones
keyed(new, ex) == PutMissing(PutAll(<<>>, new), ex)

\* x.get('pubDate') or ''
PubDateOrEmpty(it) == IF it.pubDate.k = "none" THEN Empty ELSE it.pubDate

NeedsNow(it) == ~dtparser_parse(PubDateOrEmpty(it)).ok

\* how many of the first i items have a pubDate that does not parse
CountNeedsNow(items, i) == Cardinality({j \in 1..i : NeedsNow(items[j])})

\* parse_pubdate_string for each item; the k-th failure reads nows[used + k]
parse_pubdate_string(all_items, nows, used) ==
    [i \in 1..Len(all_items) |->
        LET p == dtparser_parse(PubDateOrEmpty(all_items[i]))
        IN  IF p.ok THEN p
            ELSE datetime_now(nows[used + CountNeedsNow(all_items, i)])]

\* comparing an offset-naive with an offset-aware datetime raises TypeError
SortRaises(keys) ==
    \E i, j \in 1..Len(keys) : keys[i].aware # keys[j].aware

\* a faulty variant: reverse=True forgotten, the oldest comes first
RECURSIVE InsertAsc(_, _)
InsertAsc(s, x) ==
    IF s = <<>> THEN <<x>>
    ELSE IF Head(s).key.t <= x.key.t
         THEN <<Head(s)>> \o InsertAsc(Tail(s), x)
         ELSE <<x>> \o s

\* the place of x in a list sorted newest first: behind every element whose
\* key is not smaller (the sort is stable)
RECURSIVE InsertDesc(_, _)
InsertDesc(s, x) ==
    IF s = <<>> THEN <<x>>
    ELSE IF Head(s).key.t >= x.key.t
         THEN <<Head(s)>> \o InsertDesc(Tail(s), x)
         ELSE <<x>> \o s

RECURSIVE SortDesc(_, _)
SortDesc(done, rest) ==
    IF rest = <<>> THEN done
    ELSE SortDesc(InsertDesc(done, Head(rest)), Tail(rest))

\* sorted(all_items, key=..., reverse=True), as item/key pairs
sorted_reverse(all_items, keys) ==
    SortDesc(<<>>, [i \in 1..Len(all_items) |->
                        [item |-> all_items[i], key |-> keys[i]]])

\* s[:n]
SliceTo(s, n) ==
    IF n >= 0 THEN SubSeq(s, 1, Min(n, Len(s)))
    ELSE SubSeq(s, 1, Max(Len(s) + n, 0))

\* the document main writes: a channel with the items' elements
written(sorted) ==
    [kind |-> "rss",
     items |-> [i \in 1..Len(sorted) |-> sorted[i].item.element]]

----------------------------------------------------------------------------
(* Inputs: the entries the upstream feed serves, the feeds one fetch can    *)
(* return, and the files a first run can find at the output path.           *)

ColA1 == [title |-> "t1", link |-> LinkA, published |-> Aware(1)]
ColA2 == [title |-> "t2", link |-> LinkA, published |-> Aware(2)]
ColB0 == [title |-> "t1", link |-> LinkB, published |-> Naive(0)]
ColB2 == [title |-> "t1", link |-> LinkB, published |-> Aware(2)]
ColBx == [title |-> "t2", link |-> LinkB, published |-> Garbage]
ColBn == [title |-> "t2", link |-> LinkB, published |-> None]
News2 == [title |-> "t1", link |-> LinkNews, published |-> Aware(2)]
NoLink2 == [title |-> "t1", link |-> NoText, published |-> Aware(2)]

Feeds ==
    { <<>>, <<ColA1>>, <<ColA2>>, <<ColB2>>, <<ColBx>>, <<News2>>,
      <<ColA1, ColA2>>, <<ColA2, ColA1>>,
      <<ColB0, ColA1>>, <<ColA1, ColBx>>, <<ColBn, ColBx>>,
      <<News2, ColA2>>, <<ColB0, NoLink2>> }

OldNoGuid == [title |-> "t0", link |-> LinkOld, guid |-> NoText,
              pubDate |-> Aware(1)]
OldAware0 == [title |-> "t0", link |-> LinkOld, guid |-> LinkOld,
              pubDate |-> Aware(0)]
OldNaive1 == [title |-> "t0", link |-> LinkOld, guid |-> LinkOld,
              pubDate |-> Naive(1)]
OldNoDate == [title |-> "t0", link |-> LinkOld, guid |-> LinkOld,
              pubDate |-> None]
OldEmptyDate == [title |-> "t0", link |-> LinkOld, guid |-> LinkOld,
                 pubDate |-> Empty]
OldBadDate == [title |-> "t0", link |-> LinkOld, guid |-> LinkOld,
               pubDate |-> Garbage]
PrevA0 == [title |-> "t0", link |-> LinkA, guid |-> LinkA,
           pubDate |-> Aware(0)]
PrevANaive2 == [title |-> "t0", link |-> LinkA, guid |-> LinkA,
                pubDate |-> Naive(2)]
PrevBBadDate == [title |-> "t0", link |-> LinkB, guid |-> LinkB,
                 pubDate |-> Garbage]

Absent == [kind |-> "absent", items |-> <<>>]
Unparseable == [kind |-> "corrupt", items |-> <<>>]
NoChannel == [kind |-> "nochannel", items |-> <<>>]
Rss(its) == [kind |-> "rss", items |-> its]

Files ==
    { Absent, Unparseable, NoChannel, Rss(<<>>),
      Rss(<<OldNoGuid>>), Rss(<<OldNaive1>>), Rss(<<OldNoDate>>),
      Rss(<<OldEmptyDate>>), Rss(<<OldBadDate>>), Rss(<<PrevA0>>),
      Rss(<<OldNoGuid, PrevA0>>), Rss(<<PrevA0, OldAware0>>),
      Rss(<<OldNoGuid, OldAware0>>), Rss(<<OldBadDate, PrevBBadDate>>),
      Rss(<<PrevANaive2, OldNaive1>>), Rss(<<OldNaive1, PrevA0>>) }

MaxItemsArgs == (-1..MaxItemsArg) \cup {DefaultMaxItems}

NoRequest == [reach |-> FALSE, status |-> 0, json |-> "none"]
Unreachable == [reach |-> FALSE, status |-> 0, json |-> "malformed"]

Responses ==
    {Unreachable}
    \cup {[reach |-> TRUE, status |-> st, json |-> j] :
            st \in {200, 300, 500}, j \in {"malformed", "solution", "other"}}

\* what the upstream can have served when the relay answers r
FeedsOf(r) ==
    IF fetch_via_flaresolverr(r).body = "feed" THEN Feeds ELSE {<<>>}

\* the values n successive calls of datetime.now() can return from time c on
RECURSIVE NowSeqs(_, _)
NowSeqs(n, c) ==
    IF n = 0 THEN {<<>>}
    ELSE UNION {{<<t>> \o s : s \in NowSeqs(n - 1, t)} : t \in c..MaxTime}

----------------------------------------------------------------------------
(* One run of main *)

Init ==
    /\ file \in Files
    /\ clock = 0
    /\ resp = NoRequest
    /\ entries = <<>>
    /\ existing = <<>>
    /\ max_items \in MaxItemsArgs
    /\ sort_keys = <<>>
    /\ exit_code = "none"

\* lines 137-140: no relay URL, sys.exit(2)
MainNoRelay ==
    /\ resp' = NoRequest
    /\ entries' = <<>>
    /\ existing' = <<>>
    /\ sort_keys' = <<>>
    /\ exit_code' = "2"
    /\ UNCHANGED <<file, clock, max_items>>

\* lines 143-147: the fetch raises, sys.exit(3)
MainFetchError(r) ==
    /\ fetch_via_flaresolverr(r).raised
    /\ resp' = r
    /\ entries' = <<>>
    /\ existing' = <<>>
    /\ sort_keys' = <<>>
    /\ exit_code' = "3"
    /\ UNCHANGED <<file, clock, max_items>>

\* the calls of datetime.now() a run makes: one for each filtered entry
\* without a usable date, then one for each merged item whose pubDate does
\* not parse (the new items' pubDates always parse)
NowCalls(flt, ex) ==
    LET m == CountUsesNow(flt, Len(flt))
        all_items == keyed(new_items(flt, [i \in 1..m |-> 0]), ex)
    IN  m + CountNeedsNow(all_items, Len(all_items))

\* lines 149-219: parse, filter, merge, sort, trim, write
MainMerge(r, feed) ==
    /\ ~fetch_via_flaresolverr(r).raised
    /\ \E es \in {feedparser_parse(fetch_via_flaresolverr(r).body, feed)} :
       \E flt \in {filtered(es)} :
       \E ex \in {load_existing_items(file)} :
       \E nows \in NowSeqs(NowCalls(flt, ex), clock) :
       \E all_items \in {keyed(new_items(flt, nows), ex)} :
       \E keys \in {parse_pubdate_string(all_items, nows,
                                         CountUsesNow(flt, Len(flt)))} :
       \E all_items_sorted \in
            {SliceTo(sorted_reverse(all_items, keys), max_items)} :
         /\ resp' = r
         /\ entries' = es
         /\ existing' = ex
         /\ clock' = IF nows = <<>> THEN clock ELSE nows[Len(nows)]
         /\ max_items' = max_items
         /\ IF SortRaises(keys)
            THEN \* uncaught TypeError: nothing is written
                 /\ exit_code' = "1"
                 /\ sort_keys' = <<>>
                 /\ file' = file
            ELSE /\ exit_code' = "0"
                 /\ sort_keys' = [i \in 1..Len(all_items_sorted) |->
                                     all_items_sorted[i].key]
                 /\ file' = written(all_items_sorted)

main(fl_url, r, feed) ==
    \/ fl_url = NoText /\ MainNoRelay
    \/ fl_url # NoText /\ MainFetchError(r)
    \/ fl_url # NoText /\ MainMerge(r, feed)

Next ==
    \/ main(NoText, NoRequest, <<>>)
    \/ \E r \in Responses : \E feed \in FeedsOf(r) : main(<<"relay">>, r, feed)

Spec == Init /\ [][Next]_vars

\* the runs that start with no file at the output path
InitAbsent == Init /\ file = Absent

SpecAbsent == InitAbsent /\ [][Next]_vars

----------------------------------------------------------------------------
(* Properties.  They are stated on what a reader of the output file sees,  *)
(* without the operators of the run.                                       *)

\* the identifier of a written item: its guid, or its link without one
Identifier(el) == IF el.guid # NoText THEN el.guid ELSE el.link

Ids(f) == {Identifier(f.items[i]) : i \in 1..Len(f.items)}

\* the last run wrote the output and exited with 0
Completed == exit_code = "0"

\* the last run got a feed text from the relay
FetchSucceeded == exit_code \in {"0", "1"}

PassesFilter(link) == Contains(link, ColumnsFilter)

\* the identifiers of the filtered fetched batch
FreshIds ==
    {entries[i].link : i \in {j \in 1..Len(entries) : PassesFilter(entries[j].link)}}

\* the identifiers of the file the last run found
ExistingIds == {Identifier(existing[j].element) : j \in 1..Len(existing)}

\* the last entry of the batch with link X
LastFresh(X) ==
    entries[CHOOSE j \in 1..Len(entries) :
                /\ entries[j].link = X
                /\ \A k \in (j + 1)..Len(entries) : entries[k].link # X]

Parseable(d) == d.k \in {"aware", "naive"}

\* C1: a run that completes writes at most max_items items, whatever the
\* integer given as --max-items.
C1_BoundInvariant == Completed => Len(file.items) <= max_items

\* what holds instead: the bound is kept for every --max-items >= 0
BoundForNonNegative ==
    (Completed /\ max_items >= 0) => Len(file.items) <= max_items

\* C2: after a completed run no two items of the output share an identifier.
C2_UniqueIdentifiers ==
    Completed =>
        \A i, j \in 1..Len(file.items) :
            i # j => Identifier(file.items[i]) # Identifier(file.items[j])

\* the batch repeats a link, the file found repeats a guid, and two items
\* were written
C2_Witness ==
    /\ Completed
    /\ entries = <<ColA1, ColA2>>
    /\ Len(existing) = 2
    /\ existing[1].guid = existing[2].guid
    /\ Len(file.items) = 2

\* C3: after a completed run the output is ordered newest first: the instants
\* the items were ranked by never increase, and a parseable pubDate is the
\* instant its item was ranked by.
C3_NewestFirst ==
    Completed =>
        /\ Len(sort_keys) = Len(file.items)
        /\ \A i \in 1..(Len(file.items) - 1) :
                sort_keys[i].t >= sort_keys[i + 1].t
        /\ \A i \in 1..Len(file.items) :
                Parseable(file.items[i].pubDate)
                    => sort_keys[i].t = file.items[i].pubDate.t

\* the batch lists the older entry first and the output has the newer first
C3_Witness ==
    /\ Completed
    /\ entries = <<ColB0, ColA1>>
    /\ Len(file.items) >= 2
    /\ Identifier(file.items[1]) = LinkA
    /\ sort_keys[1].t > sort_keys[2].t

\* the written item el carries the data of the entry e
CarriesEntry(el, e) ==
    /\ el.title = e.title
    /\ el.link = e.link
    /\ el.guid = e.link
    /\ el.pubDate.k = "aware"
    /\ IF Parseable(e.published)
       THEN el.pubDate.t = e.published.t
       ELSE el.pubDate.t <= clock

\* C4: an output item whose identifier is in the filtered batch carries the
\* data of the batch's entry, never the persisted item's; any other output
\* item is the first persisted item with its identifier, unchanged.
C4_FreshnessPrecedence ==
    Completed =>
        \A i \in 1..Len(file.items) :
            LET el == file.items[i]
                X == Identifier(el)
            IN  IF X \in FreshIds
                THEN CarriesEntry(el, LastFresh(X))
                ELSE \E j \in 1..Len(existing) :
                        /\ existing[j].element = el
                        /\ \A k \in 1..(j - 1) :
                              Identifier(existing[k].element) # X

\* a persisted item and a fetched entry share the link, with different
\* titles and dates, and the output shows the entry
C4_Witness ==
    /\ Completed
    /\ entries = <<ColA2>>
    /\ \E j \in 1..Len(existing) : existing[j].element = PrevA0
    /\ \E i \in 1..Len(file.items) :
          /\ Identifier(file.items[i]) = LinkA
          /\ file.items[i].title = "t2"
          /\ file.items[i].pubDate = Aware(2)

\* the relay could not be reached, answered with a status outside 2xx, or
\* sent malformed JSON
RelayFailed(r) ==
    ~r.reach \/ r.status < 200 \/ r.status >= 300 \/ r.json = "malformed"

\* C5: when the relay request fails the run exits non-zero and the file is
\* left as it was.
C5_TransportFailureKeepsFile ==
    [][(resp' # NoRequest /\ RelayFailed(resp'))
          => (exit_code' \in {"1", "2", "3"} /\ file' = file)]_vars

\* what holds instead: so it is for an unreachable relay, a 4xx or 5xx
\* status and malformed JSON
TransportErrorKeepsFile ==
    [][(resp' # NoRequest
          /\ (~resp'.reach \/ resp'.status >= 400 \/ resp'.json = "malformed"))
          => (exit_code' = "3" /\ file' = file)]_vars

\* C6: two completed runs in succession on the same feed leave the same set
\* of identifiers in the output (stated for --max-items >= 0).
C6_Idempotence ==
    [][(Completed /\ exit_code' = "0" /\ entries' = entries /\ max_items >= 0)
          => Ids(file') = Ids(file)]_vars

\* C7: from an absent file on, every item of the output has a link that
\* passes the filter, and no entry of the batch that fails it is in the
\* output.
C7_FilterCorrectness ==
    /\ \A i \in 1..Len(file.items) : PassesFilter(file.items[i].link)
    /\ \A j \in 1..Len(entries) :
          ~PassesFilter(entries[j].link) => entries[j].link \notin Ids(file)

\* the batch has an entry that fails the filter and one that passes, and the
\* output was written
C7_Witness ==
    /\ Completed
    /\ entries = <<News2, ColA2>>
    /\ Len(file.items) = 1

\* C8: whenever the fetch succeeds the run completes and writes the output,
\* whatever the file it finds.
C8_GracefulDegradation == FetchSucceeded => Completed

\* C9: every identifier of the written output is in the run's filtered batch
\* or in the file the run found.
C9_NoResurrection == Completed => Ids(file) \subseteq (FreshIds \cup ExistingIds)

\* a persisted identifier was truncated away while a fetched one was written
C9_Witness ==
    /\ Completed
    /\ max_items >= 1
    /\ Len(file.items) = max_items
    /\ FreshIds # {}
    /\ \E X \in ExistingIds : X \notin Ids(file)

\* the scenario of C10: the file holds exactly max_items items with distinct
\* identifiers and parseable dates, and the batch has one matching entry, with
\* a new identifier and a date newer than every persisted one
DisplacementCase ==
    /\ Len(existing) = max_items
    /\ Cardinality(ExistingIds) = Len(existing)
    /\ \A j \in 1..Len(existing) : Parseable(existing[j].pubDate)
    /\ Len(entries) = 1
    /\ PassesFilter(entries[1].link)
    /\ entries[1].link \notin ExistingIds
    /\ Parseable(entries[1].published)
    /\ \A j \in 1..Len(existing) :
          entries[1].published.t > existing[j].pubDate.t

\* the new item is first and an oldest persisted item is the one dropped
Displaced ==
    /\ Completed
    /\ Len(file.items) = max_items
    /\ Identifier(file.items[1]) = entries[1].link
    /\ \E j \in 1..Len(existing) :
          /\ \A k \in 1..Len(existing) :
                existing[j].pubDate.t <= existing[k].pubDate.t
          /\ Ids(file) =
                {entries[1].link}
                \cup (ExistingIds \ {Identifier(existing[j].element)})

\* C10: in the displacement scenario the new item comes first and the oldest
\* persisted item is dropped; in general the output holds
\* min(max_items, distinct identifiers) items (stated for --max-items >= 1).
C10_Displacement ==
    (FetchSucceeded /\ max_items >= 1) =>
        /\ Completed
        /\ Len(file.items) =
              Min(max_items, Cardinality(FreshIds \cup ExistingIds))
        /\ DisplacementCase => Displaced

\* what holds instead: the same for --max-items >= 1 and a run that completes
DisplacementWhenCompleted ==
    (Completed /\ max_items >= 1) =>
        /\ Len(file.items) =
              Min(max_items, Cardinality(FreshIds \cup ExistingIds))
        /\ DisplacementCase => Displaced

====
